---- MODULE Spec2Model ----
(***************************************************************************)
(* A model of hwp-to-markdown: the conversion orchestrator (converter.py), *)
(* its three strategies (pyhwp, hwpx-native, libreoffice), the scratch     *)
(* directories they create, and the callers of convert (cli.py, api.py).   *)
(***************************************************************************)
EXTENDS Integers, Sequences, FiniteSets, TLC

VARIABLES
    pc,          \* position of the running convert call
    arg,         \* arguments of the call and what the input file is
    loAvail,     \* find_libreoffice() finds an executable
    strat,       \* the _convert_with_* function that is running
    invoked,     \* the _convert_with_* functions called so far, in order
    created,     \* number of mkdtemp calls so far
    live,        \* scratch directories that are on disk
    tmpdir,      \* the scratch directory of the running strategy (0: none)
    exc,         \* exception in flight
    nativeErr,   \* the `e` bound by convert's except clause (line 372)
    result,      \* what convert returned or raised
    locals,      \* html_content, image_mapping and markdown of the running strategy
    disk,        \* what the call has put at the output path and in the image directory
    mainPc,      \* cli.main: position ("off" when no CLI run is modelled)
    cli,         \* cli.main: its locals (args, files, loop index, counters)
    apiPc,       \* api: position of the request ("off" when none is modelled)
    api,         \* api: the request and the response
    archive,     \* hwpx_to_html: the zip archive it is given
    parsePc,     \* hwpx_to_html: position
    section_files, \* hwpx_to_html: the sorted section entries
    secIdx,      \* hwpx_to_html: index of the next section to parse
    html_parts,  \* hwpx_to_html: the markup collected so far
    parsed,      \* hwpx_to_html: what it returned or raised, and its scratch directory
    section_tree, \* _parse_section: the XML tree of the section it is given
    sectionPc,   \* _parse_section: position ("off" when no call is modelled)
    section_html, \* _parse_section: the markup it returned
    markup,      \* html_to_markdown: the document tree of its html argument
    image_mapping, \* html_to_markdown: its image_mapping argument, in dict order
    renderPc,    \* html_to_markdown: position ("off" when no call is modelled)
    markdown,    \* html_to_markdown: the text it returned
    calls,       \* concurrent calls: position and locals of each _convert_with_* call
    tmp_dirs     \* concurrent calls: what each directory of the temp area holds

convVars == <<pc, arg, loAvail, strat, invoked, created, live, tmpdir, exc,
              nativeErr, result, locals, disk>>

callerVars == <<mainPc, cli, apiPc, api>>

hwpxVars == <<archive, parsePc, section_files, secIdx, html_parts, parsed>>

sectionVars == <<section_tree, sectionPc, section_html>>

(* The variables of the functions that are modelled on their own. *)
renderVars == <<markup, image_mapping, renderPc, markdown>>

concVars == <<calls, tmp_dirs>>

libVars == <<sectionVars, renderVars, concVars>>

vars == <<convVars, callerVars, hwpxVars, libVars>>

----------------------------------------------------------------------------
(* ConversionMethod, converter.py lines 21-27 *)
AUTO == "auto"
PYHWP == "pyhwp"
HWPX_NATIVE == "hwpx-native"
LIBREOFFICE == "libreoffice"

ConversionMethod == {AUTO, PYHWP, HWPX_NATIVE, LIBREOFFICE}

(* What the two inspectors say about a file: is_hwpx_file is true of       *)
(* "hwpx", _is_hwp5_file of "hwp5", both are false of "other".  A zip      *)
(* archive starts with PK, so no file is both.                            *)
Formats == {"hwpx", "hwp5", "other"}

(* hwp_path.suffix.lower() *)
Suffixes == {".hwp", ".hwpx", ".txt"}

_is_hwpx_file(f) == f.fmt = "hwpx"

_is_hwp5_file(f) == f.fmt = "hwp5"

Files == [exists : BOOLEAN, fmt : Formats, ext : Suffixes]

NoArg == [exists |-> FALSE, fmt |-> "other", ext |-> ".txt", method |-> AUTO,
          output |-> FALSE, images_dir |-> FALSE]

(* Exceptions: the class, the strategy that raised it and its __cause__.  *)
NoExc == [type |-> "none", origin |-> "none", cause |-> "none", causeOrigin |-> "none"]

Raise(type, origin) ==
    [type |-> type, origin |-> origin, cause |-> "none", causeOrigin |-> "none"]

RaiseFrom(type, origin, e) ==
    [type |-> type, origin |-> origin, cause |-> e.type, causeOrigin |-> e.origin]

NoResult == [kind |-> "none", by |-> "none", exc |-> NoExc, value |-> <<>>]

(* The locals of a _convert_with_* function before they are assigned. *)
NoLocals == [html_content |-> <<>>, image_mapping |-> <<>>, markdown |-> <<>>]

(* Nothing has been written: the directory of the output path has not been *)
(* made, no directory has been given to an extractor, no image has been    *)
(* copied, no copy has failed, the output file is not there.               *)
NoDisk == [output_dir |-> FALSE, image_root |-> "none", images |-> {},
           copy_errors |-> 0, written |-> FALSE, text |-> <<>>]

----------------------------------------------------------------------------
(* converter.py, html_to_markdown, and the image extractors that make its  *)
(* image_mapping.  A string is a sequence of atoms: a path is its parts    *)
(* with the "/" between them, so that str.replace and `in` look inside     *)
(* paths; a node of the document tree is a record.                         *)
(* the characters str.strip() takes away *)
Whitespace == {" ", "\n"}

Node(tag, kids) == [tag |-> tag, src |-> <<>>, alt |-> "", text |-> <<>>, kids |-> kids]

TextNode(text) == [Node("#text", <<>>) EXCEPT !.text = text]

Img(src, alt) == [Node("img", <<>>) EXCEPT !.src = src, !.alt = alt]

(* settings.converter.images_dir_name, config.py *)
images_dir_name == "images"

(* extract_images, lines 114-144: the mapping for the files of bindata/,   *)
(* in the order of iterdir.  A dict is the sequence of its items.          *)
extract_images(bindata) ==
    [i \in 1..Len(bindata) |->
        << <<"bindata", "/", bindata[i]>>, <<images_dir_name, "/", bindata[i]>> >>]

(* extract_images_from_hwpx, hwpx_parser.py lines 209-241: the mapping    *)
(* for the BinData/ entries of the archive that were written.              *)
extract_images_from_hwpx(bindata) ==
    [i \in 1..Len(bindata) |->
        << <<"BinData", "/", bindata[i]>>, <<images_dir_name, "/", bindata[i]>> >>]

(* extract_images_libreoffice, libreoffice_converter.py lines 180-218:     *)
(* first the files of bindata/, then the image files next to the html.    *)
extract_images_libreoffice(bindata, loose) ==
    extract_images(bindata) \o
    [i \in 1..Len(loose) |-> << <<loose[i]>>, <<images_dir_name, "/", loose[i]>> >>]

(* line 163: find_all(["script", "style", "meta", "link"]) *)
NonContent == {"script", "style", "meta", "link"}

(* lines 163-164: every such element is taken out with what is below it *)
KeepAll(nodes) == nodes

RECURSIVE decompose(_)
decompose(nodes) ==
    IF nodes = <<>> THEN <<>>
    ELSE IF Head(nodes).tag \in NonContent THEN decompose(Tail(nodes))
    ELSE <<[Head(nodes) EXCEPT !.kids = decompose(@)]>> \o decompose(Tail(nodes))

(* line 173: f"IMGPLACEHOLDER{idx}ENDIMG" *)
MarkerOfFirst(idx) == <<"IMGPLACEHOLDER", "0", "ENDIMG">>

Marker(idx) == <<"IMGPLACEHOLDER", ToString(idx), "ENDIMG">>

(* lines 168-175: the img elements are numbered in document order; one     *)
(* that has a table above it is recorded in image_placeholders and         *)
(* replaced by its marker.  The result is the new tree, the records and    *)
(* the next index.                                                         *)
RECURSIVE ReplaceTableImages(_, _, _)
ReplaceTableImages(nodes, in_table, idx) ==
    IF nodes = <<>> THEN [soup |-> <<>>, image_placeholders |-> <<>>, idx |-> idx]
    ELSE LET n == Head(nodes)
             first ==
                 IF n.tag = "img"
                 THEN IF in_table
                      THEN [soup |-> <<TextNode(Marker(idx))>>,
                            image_placeholders |->
                                <<[marker |-> Marker(idx), src |-> n.src, alt |-> n.alt]>>,
                            idx |-> idx + 1]
                      ELSE [soup |-> <<n>>, image_placeholders |-> <<>>, idx |-> idx + 1]
                 ELSE LET below == ReplaceTableImages(n.kids, in_table \/ n.tag = "table", idx)
                      IN  [soup |-> <<[n EXCEPT !.kids = below.soup]>>,
                           image_placeholders |-> below.image_placeholders,
                           idx |-> below.idx]
             rest == ReplaceTableImages(Tail(nodes), in_table, first.idx)
         IN  [soup |-> first.soup \o rest.soup,
              image_placeholders |-> first.image_placeholders \o rest.image_placeholders,
              idx |-> rest.idx]

(* line 177: str(soup) *)
RECURSIVE str(_)
str(nodes) ==
    IF nodes = <<>> THEN <<>>
    ELSE LET n == Head(nodes)
         IN  (IF n.tag = "#text" THEN n.text
              ELSE IF n.tag = "img"
                   THEN <<"<img alt=", n.alt, "src=">> \o n.src \o <<"/>">>
              ELSE <<"<", n.tag, ">">> \o str(n.kids) \o <<"</", n.tag, ">">>)
             \o str(Tail(nodes))

StartsWith(s, prefix) ==
    Len(prefix) <= Len(s) /\ SubSeq(s, 1, Len(prefix)) = prefix

(* str.replace(old, new): every occurrence, from the left *)
RECURSIVE replace(_, _, _)
replace(s, old, new) ==
    IF s = <<>> THEN <<>>
    ELSE IF StartsWith(s, old)
         THEN new \o replace(SubSeq(s, Len(old) + 1, Len(s)), old, new)
    ELSE <<Head(s)>> \o replace(Tail(s), old, new)

(* lines 180-182: one str.replace per item of the mapping, in dict order *)
RECURSIVE ReplacePaths(_, _)
ReplacePaths(s, mapping) ==
    IF mapping = <<>> THEN s
    ELSE ReplacePaths(replace(s, mapping[1][1], mapping[1][2]), Tail(mapping))

(* The index of the first atom of s that is equal to atom (0: none). *)
IndexOf(s, atom) ==
    IF \E i \in 1..Len(s) : s[i] = atom
    THEN CHOOSE i \in 1..Len(s) : s[i] = atom /\ \A j \in 1..(i - 1) : s[j] # atom
    ELSE 0

(* markdownify, for the tags of the model: the text is kept, a paragraph   *)
(* and a table stand apart by blank lines, a row is one line of cells      *)
(* between bars (the rule under the first row is left out), an img is      *)
(* ![alt](src) except below a table, where only its alt text is kept.      *)
TagMarkdown(bracket, tag) ==
    CASE tag = "p" -> <<"\n", "\n">>
      [] tag = "table" -> IF bracket = "<" THEN <<"\n", "\n">> ELSE <<"\n">>
      [] tag = "tr" -> IF bracket = "<" THEN <<"|">> ELSE <<"\n">>
      [] tag = "td" -> IF bracket = "<" THEN <<" ">> ELSE <<" ", "|">>
      [] OTHER -> <<>>

RECURSIVE Markdownify(_, _)
Markdownify(s, tables) ==
    IF s = <<>> THEN <<>>
    ELSE IF Head(s) = "<img alt="
         THEN LET src_at == IndexOf(s, "src=")
                  end == IndexOf(s, "/>")
                  alt == SubSeq(s, 2, src_at - 1)
                  src == SubSeq(s, src_at + 1, end - 1)
              IN  (IF tables > 0 THEN alt
                   ELSE <<"![">> \o alt \o <<"](">> \o src \o <<")">>)
                  \o Markdownify(SubSeq(s, end + 1, Len(s)), tables)
    ELSE IF Head(s) \in {"<", "</"} /\ Len(s) >= 3
         THEN TagMarkdown(s[1], s[2])
              \o Markdownify(SubSeq(s, 4, Len(s)),
                             IF s[2] # "table" THEN tables
                             ELSE IF s[1] = "<" THEN tables + 1 ELSE tables - 1)
    ELSE <<Head(s)>> \o Markdownify(Tail(s), tables)

(* lines 185-189 *)
md(s) == Markdownify(s, 0)

(* lines 194-195: `src in image_mapping`, then image_mapping[src] *)
Resolve(mapping, src) ==
    IF \E i \in 1..Len(mapping) : mapping[i][1] = src
    THEN mapping[CHOOSE i \in 1..Len(mapping) : mapping[i][1] = src][2]
    ELSE src

(* lines 192-197: each marker is replaced by the image it stands for *)
RECURSIVE Restore(_, _, _)
Restore(s, image_placeholders, mapping) ==
    IF image_placeholders = <<>> THEN s
    ELSE LET ph == Head(image_placeholders)
             md_image == <<"![", ph.alt, "](">> \o Resolve(mapping, ph.src) \o <<")">>
         IN  Restore(replace(s, ph.marker, md_image), Tail(image_placeholders), mapping)

(* line 200: re.sub(r"\n{3,}", "\n\n", markdown) *)
RECURSIVE SqueezeNewlines(_)
SqueezeNewlines(s) ==
    IF Len(s) >= 3 /\ s[1] = "\n" /\ s[2] = "\n" /\ s[3] = "\n"
    THEN SqueezeNewlines(Tail(s))
    ELSE IF s = <<>> THEN <<>>
    ELSE <<Head(s)>> \o SqueezeNewlines(Tail(s))

(* line 201: str.strip() *)
RECURSIVE strip(_)
strip(s) ==
    IF s = <<>> THEN <<>>
    ELSE IF Head(s) \in Whitespace THEN strip(Tail(s))
    ELSE IF s[Len(s)] \in Whitespace THEN strip(SubSeq(s, 1, Len(s) - 1))
    ELSE s

(* html_to_markdown, lines 147-203 *)
html_to_markdown(soup, mapping) ==
    LET marked == ReplaceTableImages(decompose(soup), FALSE, 0)
        html == ReplacePaths(str(marked.soup), mapping)
    IN  strip(SqueezeNewlines(Restore(md(html), marked.image_placeholders, mapping)))

----------------------------------------------------------------------------
(* No convert call has been made yet. *)
IdleConvert ==
    /\ pc = "idle"
    /\ arg = NoArg
    /\ strat = "none"
    /\ invoked = <<>>
    /\ created = 0
    /\ live = {}
    /\ tmpdir = 0
    /\ exc = NoExc
    /\ nativeErr = NoExc
    /\ result = NoResult
    /\ locals = NoLocals
    /\ disk = NoDisk

InitConvert ==
    /\ IdleConvert
    /\ loAvail \in BOOLEAN

NoCli == [output |-> FALSE, patterns |-> <<>>, files |-> <<>>, idx |-> 0,
          success_count |-> 0, error_count |-> 0, errLines |-> <<>>,
          attempted |-> <<>>, exitCode |-> -1]

NoApi == [filename |-> <<>>, fmt |-> "other", method |-> AUTO,
          endpoint |-> "none", called |-> FALSE, status |-> 0]

NoArchive == [zip |-> FALSE, mimetype |-> "absent", bindata |-> {},
              sections |-> <<>>]

NoParsed == [kind |-> "none", html |-> <<>>, exc |-> NoExc, tmpdir |-> "none",
             scratch |-> {}]

(* No archive is being parsed. *)
NoHwpx ==
    /\ archive = NoArchive
    /\ parsePc = "off"
    /\ section_files = <<>>
    /\ secIdx = 0
    /\ html_parts = <<>>
    /\ parsed = NoParsed

(* _parse_section is not being called. *)
NoSection ==
    /\ section_tree = <<>>
    /\ sectionPc = "off"
    /\ section_html = <<>>

(* html_to_markdown is not being called. *)
NoRender ==
    /\ markup = <<>>
    /\ image_mapping = <<>>
    /\ renderPc = "off"
    /\ markdown = <<>>

(* No concurrent calls are modelled. *)
NoCalls ==
    /\ calls = <<>>
    /\ tmp_dirs = <<>>

NoLib == NoSection /\ NoRender /\ NoCalls

Init ==
    /\ InitConvert
    /\ mainPc = "off" /\ cli = NoCli
    /\ apiPc = "off" /\ api = NoApi
    /\ NoHwpx
    /\ NoLib

(* A caller calls convert(hwp_path, output, images_dir, method). *)
CallConvert ==
    /\ pc = "idle"
    /\ \E f \in Files, m \in ConversionMethod, o \in BOOLEAN, i \in BOOLEAN :
         arg' = [exists |-> f.exists, fmt |-> f.fmt, ext |-> f.ext,
                 method |-> m, output |-> o, images_dir |-> i]
    /\ pc' = "convert"
    /\ UNCHANGED <<loAvail, strat, invoked, created, live, tmpdir, exc,
                   nativeErr, result, locals, disk, callerVars, hwpxVars, libVars>>

----------------------------------------------------------------------------
(* convert, lines 367-395: the strategy Auto mode calls first.  The two    *)
(* inspectors are asked in this order, then the lower-cased suffix.        *)
AutoStrategyDefaultsToPyhwp(f) ==
    IF _is_hwpx_file(f) THEN HWPX_NATIVE
    ELSE IF _is_hwp5_file(f) THEN PYHWP
    ELSE IF f.ext = ".hwpx" THEN HWPX_NATIVE
    ELSE PYHWP

AutoStrategy(f) ==
    IF _is_hwpx_file(f) THEN HWPX_NATIVE
    ELSE IF _is_hwp5_file(f) THEN PYHWP
    ELSE IF f.ext = ".hwpx" THEN HWPX_NATIVE
    ELSE IF f.ext = ".hwp" THEN PYHWP
    ELSE "unsupported"

(* convert, lines 399 and 407: the format checks of the explicit methods. *)
RejectsFormat(m, f) ==
    \/ m = PYHWP /\ _is_hwpx_file(f)
    \/ m = HWPX_NATIVE /\ ~_is_hwpx_file(f)

(* convert, lines 368-372: the only call that sits inside a try block is   *)
(* the native parser's, in Auto mode, on a file is_hwpx_file accepts.      *)
InTryAnyMethod(m, f) == _is_hwpx_file(f)

InTry(m, f) == m = AUTO /\ _is_hwpx_file(f)

(* A _convert_with_* function is called. *)
Start(s) ==
    /\ strat' = s
    /\ invoked' = Append(invoked, s)
    /\ pc' = "to_html"

(* convert raises or returns: the call is over. *)
Finish(r) ==
    /\ result' = r
    /\ pc' = "done"

Raised(e) == [kind |-> "raise", by |-> e.origin, exc |-> e, value |-> <<>>]

(* `return markdown` (lines 233, 269, 311) *)
Returned(s) == [kind |-> "return", by |-> s, exc |-> NoExc, value |-> locals.markdown]

(* convert, lines 355-425, up to the call of a strategy. *)
convert ==
    /\ pc = "convert"
    /\ UNCHANGED <<callerVars, hwpxVars, libVars>>
    /\ UNCHANGED <<arg, loAvail, created, live, tmpdir, exc, nativeErr, locals, disk>>
    /\ IF ~arg.exists
       THEN /\ Finish(Raised(Raise("FileNotFoundError", "convert")))
            /\ UNCHANGED <<strat, invoked>>
       ELSE IF arg.method = AUTO
       THEN IF AutoStrategy(arg) = "unsupported"
            THEN /\ Finish(Raised(Raise("HwpConversionError", "convert")))
                 /\ UNCHANGED <<strat, invoked>>
            ELSE /\ Start(AutoStrategy(arg))
                 /\ UNCHANGED result
       ELSE IF RejectsFormat(arg.method, arg)
       THEN /\ Finish(Raised(Raise("HwpConversionError", "convert")))
            /\ UNCHANGED <<strat, invoked>>
       ELSE IF arg.method = LIBREOFFICE /\ ~loAvail
       THEN /\ Finish(Raised(Raise("HwpConversionError", "convert")))
            /\ UNCHANGED <<strat, invoked>>
       ELSE /\ Start(arg.method)
            /\ UNCHANGED result

(* tempfile.mkdtemp: a fresh directory. *)
NewDir == created + 1

(* The document of the call: a paragraph and one image.  hwp5html and the  *)
(* office engine (after lines 152-165 of libreoffice_converter.py) refer   *)
(* to the image as bindata/<name>; the native parser makes no img element  *)
(* (hwpx_parser.py lines 164-189).                                         *)
DocImages == <<"image1.png">>

(* libreoffice_to_html, libreoffice_converter.py lines 152-165: every      *)
(* loose image file is copied to bindata/ and an src that is its name      *)
(* becomes bindata/<name>.                                                 *)
RECURSIVE Relocate(_, _)
Relocate(nodes, loose) ==
    [i \in 1..Len(nodes) |->
        LET n == nodes[i]
        IN  [n EXCEPT !.src = IF \E k \in 1..Len(loose) : n.src = <<loose[k]>>
                              THEN <<"bindata", "/">> \o n.src ELSE n.src,
                      !.kids = Relocate(n.kids, loose)]]

HtmlOf(s) ==
    CASE s = HWPX_NATIVE ->
           <<Node("head", <<Node("meta", <<>>),
                            Node("title", <<TextNode(<<"HWPX Document">>)>>)>>),
             Node("p", <<TextNode(<<"body">>)>>)>>
      [] s = LIBREOFFICE ->
           (* the engine puts each image next to the html as a loose file *)
           (* and refers to it by its name                                *)
           Relocate(<<Node("p", <<TextNode(<<"body">>)>>),
                      Img(<<DocImages[1]>>, "sajin")>>, DocImages)
      [] OTHER ->
           <<Node("p", <<TextNode(<<"body">>)>>),
             Img(<<"bindata", "/", DocImages[1]>>, "sajin")>>

(* The *_to_html function returns (html, tmpdir) to its _convert_with_*.  *)
HtmlReady ==
    /\ created' = NewDir
    /\ live' = live \cup {NewDir}
    /\ tmpdir' = NewDir
    /\ pc' = "extract"
    /\ locals' = [locals EXCEPT !.html_content = HtmlOf(strat)]
    /\ UNCHANGED <<exc, disk>>

(* The *_to_html function raises e; `kept` says whether the directory it   *)
(* made is still there.  The call sits before the try of _convert_with_*, *)
(* so the exception reaches convert directly.                             *)
HtmlFailed(e, made, kept) ==
    /\ created' = IF made THEN NewDir ELSE created
    /\ live' = IF made /\ kept THEN live \cup {NewDir} ELSE live
    /\ tmpdir' = 0
    /\ exc' = e
    /\ pc' = "raised"
    /\ UNCHANGED <<locals, disk>>

(* subprocess.run waits for the engine process.  Given timeout= it raises  *)
(* TimeoutExpired when the process has not exited by then; without it, it  *)
(* returns only when the process exits.  libreoffice_to_html passes a      *)
(* timeout (libreoffice_converter.py line 130), hwp_to_html passes none    *)
(* (lines 77-81).                                                          *)
HasTimeout(s) == s = LIBREOFFICE

(* The engine process never exits and nothing ends the wait: the call      *)
(* stays in subprocess.run, its scratch directory on disk.                 *)
Blocked ==
    /\ created' = NewDir
    /\ live' = live \cup {NewDir}
    /\ pc' = "blocked"
    /\ UNCHANGED <<tmpdir, exc, locals, disk>>

(* hwp_to_html, lines 54-111.  hwp5html can be missing (subprocess.run     *)
(* raises FileNotFoundError naming it), exit non-zero, leave no html file, *)
(* leave one that is not UTF-8, or never exit.  Only FileNotFoundError is  *)
(* caught.                                                                 *)
Hwp5Outcomes == {"ok", "missing_binary", "nonzero", "no_output", "decode_error",
                 "never_exits"}

hwp_to_html ==
    /\ pc = "to_html" /\ strat = PYHWP
    /\ UNCHANGED <<callerVars, hwpxVars, libVars>>
    /\ UNCHANGED <<arg, loAvail, strat, invoked, nativeErr, result>>
    /\ \E o \in Hwp5Outcomes :
         CASE o = "ok" -> HtmlReady
           [] o = "missing_binary" ->
                HtmlFailed(RaiseFrom("HwpConversionError", PYHWP,
                                     Raise("FileNotFoundError", PYHWP)), TRUE, FALSE)
           [] o \in {"nonzero", "no_output"} ->
                HtmlFailed(Raise("HwpConversionError", PYHWP), TRUE, TRUE)
           [] o = "decode_error" ->
                HtmlFailed(Raise("UnicodeDecodeError", PYHWP), TRUE, TRUE)
           [] o = "never_exits" ->
                IF HasTimeout(PYHWP)
                THEN HtmlFailed(Raise("TimeoutExpired", PYHWP), TRUE, TRUE)
                ELSE Blocked

(* hwpx_to_html, lines 136-206.  Every exception after mkdtemp removes the *)
(* directory; anything but HwpxParseError is wrapped into one.             *)
HwpxOutcomes == {"ok", "no_sections", "bad_xml", "io_error"}

hwpx_to_html ==
    /\ pc = "to_html" /\ strat = HWPX_NATIVE
    /\ UNCHANGED <<callerVars, hwpxVars, libVars>>
    /\ UNCHANGED <<arg, loAvail, strat, invoked, nativeErr, result>>
    /\ IF ~_is_hwpx_file(arg)
       THEN HtmlFailed(Raise("HwpxParseError", HWPX_NATIVE), FALSE, FALSE)
       ELSE \E o \in HwpxOutcomes :
              CASE o = "ok" -> HtmlReady
                [] o \in {"no_sections", "bad_xml"} ->
                     HtmlFailed(Raise("HwpxParseError", HWPX_NATIVE), TRUE, FALSE)
                [] o = "io_error" ->
                     HtmlFailed(RaiseFrom("HwpxParseError", HWPX_NATIVE,
                                          Raise("Exception", HWPX_NATIVE)),
                                TRUE, FALSE)

(* libreoffice_to_html, lines 85-177, called by _convert_with_libreoffice, *)
(* lines 287-290, which turns LibreOfficeConversionError into              *)
(* HwpConversionError.  "timeout" is the engine process that never exits:  *)
(* lines 169-171 remove the directory and raise.                           *)
LoOutcomes == {"ok", "nonzero", "no_output", "timeout", "io_error"}

libreoffice_to_html ==
    /\ pc = "to_html" /\ strat = LIBREOFFICE
    /\ UNCHANGED <<callerVars, hwpxVars, libVars>>
    /\ UNCHANGED <<arg, loAvail, strat, invoked, nativeErr, result>>
    /\ IF ~loAvail
       THEN HtmlFailed(RaiseFrom("HwpConversionError", LIBREOFFICE,
                                 Raise("LibreOfficeConversionError", LIBREOFFICE)),
                       FALSE, FALSE)
       ELSE \E o \in LoOutcomes :
              IF o = "ok"
              THEN HtmlReady
              ELSE IF o = "timeout" /\ ~HasTimeout(LIBREOFFICE)
              THEN Blocked
              ELSE HtmlFailed(RaiseFrom("HwpConversionError", LIBREOFFICE,
                                 Raise("LibreOfficeConversionError", LIBREOFFICE)),
                              TRUE, FALSE)

(* _convert_with_*, the `if output:` block (lines 217-226, 252-262,        *)
(* 295-304): mkdir of the output directory, then the image extractor.      *)
(* extract_images_from_hwpx swallows every exception (line 238);           *)
(* extract_images and extract_images_libreoffice let a failed copy out.    *)
ExtractOutcomes == {"ok", "mkdir_fail", "copy_fail"}

Swallows(s) == s = HWPX_NATIVE

(* `if output:` (lines 217 and 230, 252 and 266, 295 and 308) *)
WritesAlways(a) == TRUE

WritesOutput(a) == a.output

(* lines 221-224, 254-257, 297-300: where the images go *)
ImageRoot(a) == IF a.images_dir THEN "images_dir" ELSE "output.parent"

(* The extractor of each strategy (lines 226, 258-260, 302-304), given the *)
(* images it copied.                                                       *)
ImageMappingOf(s, copied) ==
    CASE s = PYHWP -> extract_images(copied)
      [] s = HWPX_NATIVE -> extract_images_from_hwpx(copied)
      [] s = LIBREOFFICE -> extract_images_libreoffice(copied, copied)

ExtractImages ==
    /\ pc = "extract"
    /\ UNCHANGED <<callerVars, hwpxVars, libVars>>
    /\ UNCHANGED <<arg, loAvail, strat, invoked, created, live, tmpdir,
                   nativeErr, result>>
    /\ IF ~WritesOutput(arg)
       THEN pc' = "render" /\ UNCHANGED <<exc, locals, disk>>
       ELSE \E o \in ExtractOutcomes :
              CASE o = "mkdir_fail" ->
                     /\ pc' = "cleanup" /\ exc' = Raise("OSError", strat)
                     /\ UNCHANGED <<locals, disk>>
                [] o = "ok" ->
                     /\ pc' = "render" /\ UNCHANGED exc
                     /\ locals' = [locals EXCEPT
                                     !.image_mapping = ImageMappingOf(strat, DocImages)]
                     /\ disk' = [disk EXCEPT !.output_dir = TRUE,
                                             !.image_root = ImageRoot(arg),
                                             !.images = {DocImages[i] : i \in 1..Len(DocImages)}]
                [] o = "copy_fail" ->
                     /\ disk' = [disk EXCEPT !.output_dir = TRUE,
                                             !.image_root = ImageRoot(arg),
                                             !.copy_errors = @ + 1]
                     /\ IF Swallows(strat)
                        THEN /\ pc' = "render" /\ UNCHANGED exc
                             /\ locals' = [locals EXCEPT
                                             !.image_mapping = ImageMappingOf(strat, <<>>)]
                        ELSE /\ pc' = "cleanup" /\ exc' = Raise("OSError", strat)
                             /\ UNCHANGED locals

(* html_to_markdown is a function of its two arguments: its values for    *)
(* the html_content and the image_mapping a strategy can hold.             *)
Strategies == ConversionMethod \ {AUTO}

Rendered ==
    [html \in {HtmlOf(s) : s \in Strategies},
     mapping \in {ImageMappingOf(s, copied) : s \in Strategies, copied \in {<<>>, DocImages}}
     |-> html_to_markdown(html, mapping)]

(* _convert_with_*: html_to_markdown, then output.write_text when an       *)
(* output path was given (lines 228-233, 264-269, 306-311).                *)
RenderAndWrite ==
    /\ pc = "render"
    /\ UNCHANGED <<callerVars, hwpxVars, libVars>>
    /\ UNCHANGED <<arg, loAvail, strat, invoked, created, live, tmpdir,
                   nativeErr, result>>
    /\ LET text == Rendered[locals.html_content, locals.image_mapping]
       IN \E o \in {"ok", "render_fail", "write_fail"} :
            CASE o = "ok" ->
                   /\ pc' = "cleanup" /\ UNCHANGED exc
                   /\ locals' = [locals EXCEPT !.markdown = text]
                   /\ disk' = IF WritesOutput(arg)
                              THEN [disk EXCEPT !.written = TRUE, !.text = text]
                              ELSE disk
              [] o = "render_fail" ->
                   /\ pc' = "cleanup" /\ exc' = Raise("Exception", strat)
                   /\ UNCHANGED <<locals, disk>>
              [] o = "write_fail" ->
                   /\ WritesOutput(arg)
                   /\ pc' = "cleanup" /\ exc' = Raise("OSError", strat)
                   /\ locals' = [locals EXCEPT !.markdown = text]
                   /\ UNCHANGED disk

(* _convert_with_*: the finally clause (lines 235-236, 271-272, 313-314),  *)
(* then the return of the Markdown or the exception going on to convert.   *)
RmTree(dirs, d) == dirs \ {d}

Cleanup ==
    /\ pc = "cleanup"
    /\ UNCHANGED <<callerVars, hwpxVars, libVars>>
    /\ live' = RmTree(live, tmpdir)
    /\ tmpdir' = 0
    /\ UNCHANGED <<arg, loAvail, strat, invoked, created, exc, nativeErr,
                   locals, disk>>
    /\ IF exc = NoExc
       THEN Finish(Returned(strat))
       ELSE pc' = "raised" /\ UNCHANGED result

(* convert, line 381: `raise HwpConversionError(...) from e`, e being the  *)
(* native parser's exception; the office engine's is dropped (line 379).  *)
FallbackErrorFromLast(native, last) == RaiseFrom("HwpConversionError", "convert", last)

FallbackError(native, last) == RaiseFrom("HwpConversionError", "convert", native)

(* convert, lines 372-381: the except clause around the native parser in   *)
(* Auto mode, and the except clause around the office engine inside it.    *)
AutoFallback ==
    /\ pc = "raised"
    /\ UNCHANGED <<callerVars, hwpxVars, libVars>>
    /\ InTry(arg.method, arg)
    /\ UNCHANGED <<arg, loAvail, created, live, tmpdir, locals, disk>>
    /\ IF strat = HWPX_NATIVE
       THEN /\ nativeErr' = exc
            /\ exc' = NoExc
            /\ IF loAvail
               THEN Start(LIBREOFFICE) /\ UNCHANGED result
               ELSE /\ Finish(Raised(FallbackError(exc, exc)))
                    /\ UNCHANGED <<strat, invoked>>
       ELSE /\ exc' = NoExc
            /\ Finish(Raised(FallbackError(nativeErr, exc)))
            /\ UNCHANGED <<strat, invoked, nativeErr>>

(* Everywhere else the exception leaves convert as it is. *)
Propagate ==
    /\ pc = "raised"
    /\ UNCHANGED <<callerVars, hwpxVars, libVars>>
    /\ ~InTry(arg.method, arg)
    /\ Finish(Raised(exc))
    /\ exc' = NoExc
    /\ UNCHANGED <<arg, loAvail, strat, invoked, created, live, tmpdir, nativeErr,
                   locals, disk>>

ConvertSteps ==
    \/ convert
    \/ hwp_to_html
    \/ hwpx_to_html
    \/ libreoffice_to_html
    \/ ExtractImages
    \/ RenderAndWrite
    \/ Cleanup
    \/ AutoFallback
    \/ Propagate

----------------------------------------------------------------------------
(* cli.py.  main() calls convert with the default method and an output    *)
(* path, one call after the other.                                         *)
MaxFiles == 2

(* A command-line pattern names an existing file, or nothing: neither a    *)
(* path nor a glob match (lines 45-55).                                    *)
Patterns == {f \in Files : f.exists \/ (f.fmt = "other" /\ f.ext = ".txt")}

PatternLists == UNION {[1..n -> Patterns] : n \in 1..MaxFiles}

(* main, line 82 and line 112: the exceptions main catches. *)
CaughtByMain == {"HwpConversionError", "FileNotFoundError"}

(* main calls convert(hwp_file, output=..., images_dir=...), here without  *)
(* the option that names an image directory.                               *)
MainCalls(f) ==
    /\ arg' = [exists |-> f.exists, fmt |-> f.fmt, ext |-> f.ext,
               method |-> AUTO, output |-> TRUE, images_dir |-> FALSE]
    /\ pc' = "convert"
    /\ strat' = "none"
    /\ invoked' = <<>>
    /\ tmpdir' = 0
    /\ exc' = NoExc
    /\ nativeErr' = NoExc
    /\ result' = NoResult
    /\ locals' = NoLocals
    /\ disk' = NoDisk
    /\ UNCHANGED <<loAvail, created, live>>

InitCli ==
    /\ InitConvert
    /\ mainPc = "start"
    /\ \E ps \in PatternLists, o \in BOOLEAN :
         cli = [NoCli EXCEPT !.patterns = ps, !.output = o]
    /\ apiPc = "off" /\ api = NoApi
    /\ NoHwpx
    /\ NoLib

(* main, lines 41-91: expand the patterns, then choose the branch. *)
main ==
    /\ mainPc = "start"
    /\ UNCHANGED <<apiPc, api, hwpxVars, libVars>>
    /\ LET files == SelectSeq(cli.patterns, LAMBDA f : f.exists)
       IN IF files = <<>>
          THEN /\ mainPc' = "returned"
               /\ cli' = [cli EXCEPT !.exitCode = 1]
               /\ UNCHANGED convVars
          ELSE IF Len(files) = 1 /\ cli.output
          THEN /\ mainPc' = "single"
               /\ cli' = [cli EXCEPT !.files = files, !.attempted = <<1>>]
               /\ MainCalls(files[1])
          ELSE /\ mainPc' = "loop"
               /\ cli' = [cli EXCEPT !.files = files, !.idx = 1]
               /\ UNCHANGED convVars

(* main, lines 62-84: one file and -o. *)
main_single ==
    /\ mainPc = "single" /\ pc = "done"
    /\ UNCHANGED <<convVars, apiPc, api, hwpxVars, libVars>>
    /\ IF result.kind = "return"
       THEN /\ mainPc' = "returned"
            /\ cli' = [cli EXCEPT !.exitCode = 0]
       ELSE IF result.exc.type \in CaughtByMain
       THEN /\ mainPc' = "returned"
            /\ cli' = [cli EXCEPT !.exitCode = 1, !.errLines = Append(@, 1)]
       ELSE /\ mainPc' = "crashed"
            /\ UNCHANGED cli

(* main, lines 93-105: the loop takes the next file and calls convert. *)
main_loop ==
    /\ mainPc = "loop" /\ cli.idx <= Len(cli.files)
    /\ mainPc' = "in_convert"
    /\ cli' = [cli EXCEPT !.attempted = Append(@, cli.idx)]
    /\ MainCalls(cli.files[cli.idx])
    /\ UNCHANGED <<apiPc, api, hwpxVars, libVars>>

(* main, lines 107-114: convert returned or raised.  An exception that is  *)
(* not in the except clause leaves the loop and main.                      *)
main_after ==
    /\ mainPc = "in_convert" /\ pc = "done"
    /\ UNCHANGED <<convVars, apiPc, api, hwpxVars, libVars>>
    /\ IF result.kind = "return"
       THEN /\ mainPc' = "loop"
            /\ cli' = [cli EXCEPT !.success_count = @ + 1, !.idx = @ + 1]
       ELSE IF result.exc.type \in CaughtByMain
       THEN /\ mainPc' = "loop"
            /\ cli' = [cli EXCEPT !.error_count = @ + 1, !.idx = @ + 1,
                                  !.errLines = Append(@, cli.idx)]
       ELSE /\ mainPc' = "crashed"
            /\ UNCHANGED cli

(* main, lines 116-120: the loop is over. *)
main_return ==
    /\ mainPc = "loop" /\ cli.idx > Len(cli.files)
    /\ mainPc' = "returned"
    /\ cli' = [cli EXCEPT !.exitCode = IF cli.error_count = 0 THEN 0 ELSE 1]
    /\ UNCHANGED <<convVars, apiPc, api, hwpxVars, libVars>>

NextCli ==
    \/ main
    \/ main_single
    \/ main_loop
    \/ main_after
    \/ main_return
    \/ ConvertSteps

SpecCli == InitCli /\ [][NextCli]_vars

----------------------------------------------------------------------------
(* api.py.  A file name is the sequence of its parts; its last part is     *)
(* what str.endswith looks at.                                            *)
FileNames == {<<>>, <<"doc">>, <<"doc", ".hwp">>, <<"doc", ".HWP">>,
              <<"doc", ".hwpx">>, <<"doc", ".Hwpx">>, <<"doc", ".txt">>,
              <<"doc", ".hwp", ".bak">>}

(* str.lower *)
LowerPart(p) ==
    CASE p = ".HWP" -> ".hwp"
      [] p = ".Hwpx" -> ".hwpx"
      [] OTHER -> p

lower(name) == [i \in 1..Len(name) |-> LowerPart(name[i])]

endswith(name, suffixes) == name # <<>> /\ name[Len(name)] \in suffixes

(* _validate_file, lines 61-74: TRUE when no HTTPException(400) is raised. *)
_validate_file(filename) ==
    /\ filename # <<>>
    /\ endswith(lower(filename), {".hwp", ".hwpx"})

(* _get_temp_suffix, lines 77-81 *)
_get_temp_suffix(filename) ==
    IF endswith(lower(filename), {".hwpx"}) THEN ".hwpx" ELSE ".hwp"

Endpoints == {"/convert", "/convert/file", "/convert/zip"}

InitApi ==
    /\ InitConvert
    /\ mainPc = "off" /\ cli = NoCli
    /\ NoHwpx
    /\ NoLib
    /\ apiPc = "start"
    /\ \E n \in FileNames, f \in Formats, m \in ConversionMethod, e \in Endpoints :
         api = [NoApi EXCEPT !.filename = n, !.fmt = f, !.method = m,
                             !.endpoint = e]

(* convert_hwp_to_markdown, convert_hwp_to_markdown_file and               *)
(* convert_hwp_to_zip up to the call of convert (lines 119-130, 161-172,   *)
(* 209-235).  The upload is saved to a temporary file, which exists; only  *)
(* /convert/zip passes an output path.                                     *)
api_request ==
    /\ apiPc = "start"
    /\ UNCHANGED <<mainPc, cli, hwpxVars, libVars>>
    /\ IF ~_validate_file(api.filename)
       THEN /\ apiPc' = "responded"
            /\ api' = [api EXCEPT !.status = 400]
            /\ UNCHANGED convVars
       ELSE /\ apiPc' = "in_convert"
            /\ api' = [api EXCEPT !.called = TRUE]
            /\ arg' = [exists |-> TRUE, fmt |-> api.fmt,
                       ext |-> _get_temp_suffix(api.filename),
                       method |-> api.method,
                       output |-> (api.endpoint = "/convert/zip"),
                       images_dir |-> (api.endpoint = "/convert/zip")]
            /\ pc' = "convert"
            /\ UNCHANGED <<loAvail, strat, invoked, created, live, tmpdir,
                           exc, nativeErr, result, locals, disk>>

(* The end of the three endpoints (lines 131-141, 177-189, 237-269):       *)
(* HwpConversionError becomes HTTPException(500); any other exception      *)
(* leaves the handler, and the server answers it with 500 too.             *)
StatusOf(r) ==
    IF r.kind = "return" THEN 200 ELSE 500

api_response ==
    /\ apiPc = "in_convert" /\ pc = "done"
    /\ apiPc' = "responded"
    /\ api' = [api EXCEPT !.status = StatusOf(result)]
    /\ UNCHANGED <<convVars, mainPc, cli, hwpxVars, libVars>>

NextApi ==
    \/ api_request
    \/ api_response
    \/ ConvertSteps

SpecApi == InitApi /\ [][NextApi]_vars

----------------------------------------------------------------------------
(* hwpx_parser.py.  Text and markup are sequences of tokens; an XML        *)
(* element is a record with its tag, its text (before the first child),    *)
(* its tail (after its end tag), its attributes and its children.          *)
NoAttrs == [colSpan |-> "absent", rowSpan |-> "absent"]

Elem(tag, text, kids) ==
    [tag |-> tag, text |-> text, tail |-> "", attrs |-> NoAttrs, kids |-> kids]

(* Element.iter(tag): the element and its descendants, in document order. *)
RECURSIVE Iter(_, _), IterAll(_, _)
IterAll(es, tag) ==
    IF es = <<>> THEN <<>> ELSE Iter(Head(es), tag) \o IterAll(Tail(es), tag)

Iter(e, tag) ==
    (IF e.tag = tag THEN <<e>> ELSE <<>>) \o IterAll(e.kids, tag)

RECURSIVE Flatten(_)
Flatten(ss) == IF ss = <<>> THEN <<>> ELSE Head(ss) \o Flatten(Tail(ss))

(* sep.join(parts), the parts being token sequences *)
RECURSIVE Join(_, _)
Join(sep, parts) ==
    IF parts = <<>> THEN <<>>
    ELSE IF Len(parts) = 1 THEN parts[1]
    ELSE parts[1] \o <<sep>> \o Join(sep, Tail(parts))

(* _extract_text_from_element, lines 53-66: first the text of every t      *)
(* element that has some, then one newline per lineBreak element.          *)
_extract_text_from_element(elem) ==
    LET ts == Iter(elem, "t")
        lbs == Iter(elem, "lineBreak")
    IN  Flatten([i \in 1..Len(ts) |->
                    IF ts[i].text # "" THEN <<ts[i].text>> ELSE <<>>])
        \o [i \in 1..Len(lbs) |-> "\n"]

(* _parse_table, lines 69-100 *)
CellHtml(tc_elem) ==
    LET spans == SelectSeq(tc_elem.kids, LAMBDA k : k.tag = "cellSpan")
        colspan == IF spans = <<>> \/ spans[1].attrs.colSpan = "absent"
                   THEN "1" ELSE spans[1].attrs.colSpan
        rowspan == IF spans = <<>> \/ spans[1].attrs.rowSpan = "absent"
                   THEN "1" ELSE spans[1].attrs.rowSpan
    IN  <<"<td colspan='", colspan, "' rowspan='", rowspan, "'>">>
        \o _extract_text_from_element(tc_elem) \o <<"</td>">>

RowHtml(tr_elem) ==
    LET tcs == Iter(tr_elem, "tc")
    IN  <<"<tr>">> \o Flatten([i \in 1..Len(tcs) |-> CellHtml(tcs[i])])
        \o <<"</tr>">>

_parse_table(tbl_elem) ==
    LET trs == Iter(tbl_elem, "tr")
    IN  <<"<table border='1'>">>
        \o Flatten([i \in 1..Len(trs) |-> RowHtml(trs[i])])
        \o <<"</table>">>

IsBlank(text) == \A i \in 1..Len(text) : text[i] \in Whitespace

(* _parse_paragraph, lines 103-115 *)
_parse_paragraph(p_elem) ==
    LET tbls == IterAll(p_elem.kids, "tbl")
        text == _extract_text_from_element(p_elem)
    IN  IF tbls # <<>> THEN _parse_table(tbls[1])
        ELSE IF IsBlank(text) THEN <<>>
        ELSE <<"<p>">> \o text \o <<"</p>">>

(* _parse_section, lines 118-133, of a section that is well-formed XML *)
_parse_section(root) ==
    LET ps == Iter(root, "p")
        htmls == [i \in 1..Len(ps) |-> _parse_paragraph(ps[i])]
    IN  Join("\n", SelectSeq(htmls, LAMBDA h : h # <<>>))

(* The name of a section entry is Contents/section<digits>.xml; here it is *)
(* its digits.  Python compares strings code point by code point.          *)
MaxSectionNumber == 10
MaxSections == 2
MaxParas == 1

(* str(n) *)
RECURSIVE Digits(_)
Digits(n) == IF n < 10 THEN <<n>> ELSE Digits(n \div 10) \o <<n % 10>>

SectionNames == {Digits(n) : n \in 0..MaxSectionNumber}

(* The code points of a name after the prefix all names share. *)
CodePoints(name) ==
    [i \in 1..Len(name) |-> 48 + name[i]] \o <<46, 120, 109, 108>>

RECURSIVE StrLess(_, _)
StrLess(a, b) ==
    IF b = <<>> THEN FALSE
    ELSE IF a = <<>> THEN TRUE
    ELSE IF Head(a) # Head(b) THEN Head(a) < Head(b)
    ELSE StrLess(Tail(a), Tail(b))

(* int(digits) *)
RECURSIVE Num(_)
Num(name) ==
    IF name = <<>> THEN 0
    ELSE 10 * Num(SubSeq(name, 1, Len(name) - 1)) + name[Len(name)]

(* sorted(names): ascending in the order of str *)
RECURSIVE sorted(_)
sorted(names) ==
    IF names = {} THEN <<>>
    ELSE LET least == CHOOSE n \in names :
                          \A m \in names \ {n} : StrLess(CodePoints(n), CodePoints(m))
         IN  <<least>> \o sorted(names \ {least})

(* Sections: a paragraph with one run of text per kind, or malformed XML. *)
Para(text) == Elem("p", "", <<Elem("run", "", <<Elem("t", text, <<>>)>>)>>)

ParaKinds == {Para("A"), Para("B"), Para(" ")}

Malformed == Elem("malformed", "", <<>>)

SectionXmls ==
    {Malformed} \cup
    {Elem("sec", "", ps) : ps \in UNION {[1..n -> ParaKinds] : n \in 0..MaxParas}}

Mimetypes == {"absent", "application/hwp+zip", "application/zip"}

Archives ==
    {NoArchive} \cup
    { [zip |-> TRUE, mimetype |-> m, bindata |-> b, sections |-> secs] :
        m \in Mimetypes, b \in SUBSET {"image1.png"},
        secs \in UNION {[names -> SectionXmls] :
                          names \in {ns \in SUBSET SectionNames :
                                        Cardinality(ns) <= MaxSections}} }

(* is_hwpx_file, lines 32-50 *)
is_hwpx_file(a) ==
    IF ~a.zip THEN FALSE
    ELSE IF a.mimetype # "absent" THEN a.mimetype = "application/hwp+zip"
    ELSE <<0>> \in DOMAIN a.sections

InitHwpx ==
    /\ IdleConvert /\ loAvail = FALSE
    /\ mainPc = "off" /\ cli = NoCli
    /\ apiPc = "off" /\ api = NoApi
    /\ archive \in Archives
    /\ parsePc = "start"
    /\ section_files = <<>>
    /\ secIdx = 0
    /\ html_parts = <<>>
    /\ parsed = NoParsed
    /\ NoLib

(* hwpx_to_html raises e; `made` says whether mkdtemp had been called,    *)
(* and then lines 202-206 remove the directory.                            *)
ParseFailed(e, made) ==
    /\ parsePc' = "done"
    /\ parsed' = [parsed EXCEPT !.kind = "raise", !.exc = e,
                                !.tmpdir = IF made THEN "removed" ELSE "none"]

(* hwpx_to_html, lines 149-175: the format check, mkdtemp, the sorted list *)
(* of the section entries.                                                 *)
hwpx_open ==
    /\ parsePc = "start"
    /\ UNCHANGED <<libVars, convVars, callerVars, archive, secIdx>>
    /\ IF ~is_hwpx_file(archive)
       THEN /\ ParseFailed(Raise("HwpxParseError", HWPX_NATIVE), FALSE)
            /\ UNCHANGED <<section_files, html_parts>>
       ELSE IF DOMAIN archive.sections = {}
       THEN /\ ParseFailed(Raise("HwpxParseError", HWPX_NATIVE), TRUE)
            /\ UNCHANGED <<section_files, html_parts>>
       ELSE /\ section_files' = sorted(DOMAIN archive.sections)
            /\ html_parts' = << <<"<!DOCTYPE html>">>, <<"<html>">>,
                                <<"<head><meta charset='utf-8'><title>HWPX Document</title></head>">>,
                                <<"<body>">> >>
            /\ parsePc' = "sections"
            /\ parsed' = [parsed EXCEPT !.tmpdir = "live"]

(* hwpx_to_html, lines 177-180: the next section is read and parsed.       *)
(* A section that is not well-formed ends the call (lines 120-123, 202-206)*)
(* and the scratch directory is removed.                                   *)
hwpx_section ==
    /\ parsePc = "sections"
    /\ secIdx < Len(section_files)
    /\ UNCHANGED <<libVars, convVars, callerVars, archive, section_files>>
    /\ LET section_xml == archive.sections[section_files[secIdx + 1]]
       IN IF section_xml = Malformed
          THEN /\ ParseFailed(Raise("HwpxParseError", HWPX_NATIVE), TRUE)
               /\ UNCHANGED <<secIdx, html_parts>>
          ELSE /\ html_parts' = Append(html_parts, _parse_section(section_xml))
               /\ secIdx' = secIdx + 1
               /\ UNCHANGED <<parsePc, parsed>>

(* hwpx_to_html, lines 182-200: the images go to bindata/ in the scratch   *)
(* directory, the markup is closed, joined and written to index.html.      *)
hwpx_finish ==
    /\ parsePc = "sections"
    /\ secIdx = Len(section_files)
    /\ parsePc' = "done"
    /\ parsed' = [parsed EXCEPT
                    !.kind = "return",
                    !.html = Join("\n", html_parts \o << <<"</body>">>, <<"</html>">> >>),
                    !.scratch = {<<"bindata", b>> : b \in archive.bindata}
                                \cup {<<"index.html">>}]
    /\ UNCHANGED <<libVars, convVars, callerVars, archive, section_files, secIdx, html_parts>>

NextHwpx ==
    \/ hwpx_open
    \/ hwpx_section
    \/ hwpx_finish

SpecHwpx == InitHwpx /\ [][NextHwpx]_vars

----------------------------------------------------------------------------
(* _parse_section on its own, over sections of one paragraph: a paragraph  *)
(* of text runs and line breaks, or a paragraph that wraps a table.  A     *)
(* cell holds a paragraph and may hold a cellSpan element, whose two       *)
(* attributes are absent, a numeral, or a string that is no numeral.       *)
MaxItems == 3
MaxCells == 2

Items == {Elem("t", "A", <<>>), Elem("t", "B", <<>>), Elem("lineBreak", "", <<>>)}

TextParas ==
    {Elem("p", "", <<Elem("run", "", items)>>) :
        items \in UNION {[1..n -> Items] : n \in 1..MaxItems}}

Numerals == {"1", "2"}

SpanValues == {"absent", "x"} \cup Numerals

CellSpan(c, r) ==
    [Elem("cellSpan", "", <<>>) EXCEPT !.attrs = [colSpan |-> c, rowSpan |-> r]]

Cells ==
    {Elem("tc", "", <<Para("A")>>)} \cup
    {Elem("tc", "", <<CellSpan(c, r), Para("A")>>) : c \in SpanValues, r \in SpanValues}

Tables ==
    {Elem("tbl", "", <<Elem("tr", "", cells)>>) :
        cells \in UNION {[1..n -> Cells] : n \in 1..MaxCells}}

TableParas == {Elem("p", "", <<Elem("run", "", <<tbl>>)>>) : tbl \in Tables}

(* Tables of several rows, without cellSpan elements.  A cell holds one    *)
(* paragraph: a text run, two text runs with a line break between them,    *)
(* or a paragraph that wraps a nested table of one row and one cell.       *)
MaxRows == 2

RichTables ==
    LET NestedTable ==
            Elem("tbl", "", <<Elem("tr", "", <<Elem("tc", "", <<Para("B")>>)>>)>>)
        RichCells ==
            {Elem("tc", "", <<Para("A")>>),
             Elem("tc", "", <<Elem("p", "", <<Elem("run", "",
                <<Elem("t", "A", <<>>), Elem("lineBreak", "", <<>>),
                  Elem("t", "B", <<>>)>>)>>)>>),
             Elem("tc", "", <<Elem("p", "", <<Elem("run", "", <<NestedTable>>)>>)>>)}
        RichRows ==
            {Elem("tr", "", cells) :
                cells \in UNION {[1..n -> RichCells] : n \in 1..MaxCells}}
    IN  {Elem("tbl", "", rows) : rows \in UNION {[1..n -> RichRows] : n \in 1..MaxRows}}

SectionTrees ==
    {Elem("sec", "", <<p>>) : p \in TextParas \cup TableParas} \cup
    {Elem("sec", "", <<Elem("p", "", <<Elem("run", "", <<tbl>>)>>)>>) : tbl \in RichTables}

InitSection ==
    /\ IdleConvert /\ loAvail = FALSE
    /\ mainPc = "off" /\ cli = NoCli
    /\ apiPc = "off" /\ api = NoApi
    /\ NoHwpx
    /\ NoRender
    /\ NoCalls
    /\ section_tree \in SectionTrees
    /\ sectionPc = "start"
    /\ section_html = <<>>

(* A call of _parse_section (lines 118-133) on a well-formed section. *)
parse_section ==
    /\ sectionPc = "start"
    /\ section_html' = _parse_section(section_tree)
    /\ sectionPc' = "done"
    /\ UNCHANGED <<section_tree, renderVars, concVars, convVars, callerVars, hwpxVars>>

NextSection == parse_section

SpecSection == InitSection /\ [][NextSection]_vars

----------------------------------------------------------------------------
(* The documents given to html_to_markdown: a few blocks, each a           *)
(* paragraph, an image, a table of one cell that holds an image or text,   *)
(* or one of the elements that are not content.                            *)
MaxBlocks == 2

ImageNames == {"image1.png"}

Sources ==
    {<<"bindata", "/", n>> : n \in ImageNames} \cup {<<n>> : n \in ImageNames}
    \cup {<<"photo.png">>}

Alts == {"sajin", "logo"}

Table(cell) == Node("table", <<Node("tr", <<Node("td", <<cell>>)>>)>>)

Blocks ==
    {Node("p", <<TextNode(<<"body">>)>>), Table(TextNode(<<"cell">>)),
     Node("script", <<TextNode(<<"alert(1)">>)>>),
     Node("style", <<TextNode(<<"body{color:red}">>)>>),
     Node("meta", <<>>), Node("link", <<>>)}
    \cup {Img(src, alt) : src \in Sources, alt \in Alts}
    \cup {Table(Img(src, alt)) : src \in Sources, alt \in Alts}

Markups == UNION {[1..n -> Blocks] : n \in 1..MaxBlocks}

(* No mapping, the mapping of extract_images, and the mapping of          *)
(* extract_images_libreoffice, which finds every image file twice: where   *)
(* the engine wrote it and in bindata/, where libreoffice_to_html copied   *)
(* it (lines 152-165).                                                     *)
Mappings ==
    {<<>>} \cup {extract_images(<<n>>) : n \in ImageNames}
    \cup {extract_images_libreoffice(<<n>>, <<n>>) : n \in ImageNames}

InitRender ==
    /\ IdleConvert /\ loAvail = FALSE
    /\ mainPc = "off" /\ cli = NoCli
    /\ apiPc = "off" /\ api = NoApi
    /\ NoHwpx
    /\ NoSection
    /\ NoCalls
    /\ markup \in Markups
    /\ image_mapping \in Mappings
    /\ renderPc = "start"
    /\ markdown = <<>>

(* A call of html_to_markdown. *)
render ==
    /\ renderPc = "start"
    /\ markdown' = html_to_markdown(markup, image_mapping)
    /\ renderPc' = "done"
    /\ UNCHANGED <<markup, image_mapping, sectionVars, concVars, convVars, callerVars,
                   hwpxVars>>

NextRender == render

SpecRender == InitRender /\ [][NextRender]_vars

----------------------------------------------------------------------------
(* Two calls of convert in two threads of one process, each in its         *)
(* _convert_with_pyhwp or _convert_with_hwpx_native with an output path of *)
(* its own.  The threads share the temp area of the file system; every     *)
(* step below is one of parse, extract, render and cleanup of one call,    *)
(* and the steps of the two calls interleave in every order.               *)
MaxDirs == 3

Calls == {1, 2}

(* The names tempfile.mkdtemp(prefix="hwp2md_") can give. *)
DirNames == 1..MaxDirs

Docs == {"A", "B"}

(* The markup of a document: its text and its image. *)
HtmlOfDoc(doc) == <<Node("p", <<TextNode(<<doc>>)>>),
                    Img(<<"bindata", "/", DocImages[1]>>, "sajin")>>

(* mkdtemp makes a directory that was not there (converter.py line 72,     *)
(* hwpx_parser.py line 157).                                               *)
AnyDir(existing) == DirNames

mkdtemp(existing) == DirNames \ existing

Existing == {d \in DirNames : tmp_dirs[d] # "absent"}

InitCalls ==
    /\ IdleConvert /\ loAvail = FALSE
    /\ mainPc = "off" /\ cli = NoCli
    /\ apiPc = "off" /\ api = NoApi
    /\ NoHwpx
    /\ NoSection /\ NoRender
    /\ tmp_dirs = [d \in DirNames |-> "absent"]
    /\ \E docs \in [Calls -> Docs], strats \in [Calls -> {PYHWP, HWPX_NATIVE}] :
         calls = [c \in Calls |->
                    [pc |-> "to_html", doc |-> docs[c], strat |-> strats[c],
                     tmpdir |-> 0, html_content |-> <<>>, image_mapping |-> <<>>,
                     copied |-> {}, markdown |-> <<>>]]

(* hwp_to_html (converter.py lines 72-103) and hwpx_to_html                *)
(* (hwpx_parser.py lines 156-200) without failures: the new directory gets *)
(* the markup and the images of the document, and the function returns     *)
(* the markup and the directory.                                           *)
call_to_html(c) ==
    /\ calls[c].pc = "to_html"
    /\ \E d \in mkdtemp(Existing) :
         /\ tmp_dirs' = [tmp_dirs EXCEPT ![d] = calls[c].doc]
         /\ calls' = [calls EXCEPT ![c].pc = "extract",
                                   ![c].tmpdir = d,
                                   ![c].html_content = HtmlOfDoc(calls[c].doc)]
    /\ UNCHANGED <<sectionVars, renderVars, convVars, callerVars, hwpxVars>>

(* The extractor.  extract_images (converter.py lines 133-142) copies      *)
(* what is in bindata/ of the directory it is given, and nothing when      *)
(* that is not there; extract_images_from_hwpx (hwpx_parser.py lines       *)
(* 229-237) reads the archive.                                             *)
call_extract(c) ==
    /\ calls[c].pc = "extract"
    /\ LET found == IF calls[c].strat = HWPX_NATIVE THEN calls[c].doc
                    ELSE tmp_dirs[calls[c].tmpdir]
       IN  calls' = [calls EXCEPT
                       ![c].pc = "render",
                       ![c].copied = IF found = "absent" THEN {}
                                     ELSE {<<DocImages[1], found>>},
                       ![c].image_mapping =
                           ImageMappingOf(calls[c].strat,
                                          IF found = "absent" THEN <<>> ELSE DocImages)]
    /\ UNCHANGED <<tmp_dirs, sectionVars, renderVars, convVars, callerVars, hwpxVars>>

(* html_to_markdown on the locals of the call (lines 228, 264) *)
call_render(c) ==
    /\ calls[c].pc = "render"
    /\ calls' = [calls EXCEPT
                   ![c].pc = "cleanup",
                   ![c].markdown = html_to_markdown(calls[c].html_content,
                                                    calls[c].image_mapping)]
    /\ UNCHANGED <<tmp_dirs, sectionVars, renderVars, convVars, callerVars, hwpxVars>>

(* finally: shutil.rmtree(tmpdir, ignore_errors=True) (lines 235-236,      *)
(* 271-272), then `return markdown`.                                       *)
call_cleanup(c) ==
    /\ calls[c].pc = "cleanup"
    /\ tmp_dirs' = [tmp_dirs EXCEPT ![calls[c].tmpdir] = "absent"]
    /\ calls' = [calls EXCEPT ![c].pc = "done"]
    /\ UNCHANGED <<sectionVars, renderVars, convVars, callerVars, hwpxVars>>

NextCalls ==
    \E c \in Calls :
        \/ call_to_html(c)
        \/ call_extract(c)
        \/ call_render(c)
        \/ call_cleanup(c)

SpecCalls == InitCalls /\ [][NextCalls]_vars

----------------------------------------------------------------------------
Next ==
    \/ CallConvert
    \/ ConvertSteps


Spec == Init /\ [][Next]_vars

(* The interpreter goes on running whatever step of the call is possible.  *)
FairSpec == Init /\ [][Next]_vars /\ WF_vars(Next)
----------------------------------------------------------------------------
(* Properties of convert, checked under Spec. *)

Running == pc \notin {"idle", "convert"}

(* C1: when convert has returned or raised, every scratch directory that   *)
(* mkdtemp created during the call has been removed.                       *)
C1_ScratchRemoved == pc = "done" => live = {}

C2_AutoHwpx == arg.method = AUTO /\ arg.exists /\ _is_hwpx_file(arg)

(* C2: in Auto mode on a file is_hwpx_file accepts, the native parser is   *)
(* called first; the office engine is called only after the native parser  *)
(* raised and only when LibreOffice is available; the call ends with the   *)
(* native Markdown, or with the office engine's Markdown, or else with     *)
(* HwpConversionError whose cause is the native parser's exception.        *)
C2_AutoFallbackOrder ==
    (C2_AutoHwpx /\ Running) =>
        /\ invoked \in {<<HWPX_NATIVE>>, <<HWPX_NATIVE, LIBREOFFICE>>}
        /\ Len(invoked) = 2 =>
             /\ loAvail
             /\ nativeErr # NoExc
             /\ nativeErr.origin = HWPX_NATIVE
        /\ pc = "done" =>
             \/ result = Returned(HWPX_NATIVE) /\ invoked = <<HWPX_NATIVE>>
             \/ result = Returned(LIBREOFFICE) /\ Len(invoked) = 2
             \/ /\ result.kind = "raise"
                /\ result.exc.type = "HwpConversionError"
                /\ nativeErr # NoExc
                /\ result.exc.cause = nativeErr.type
                /\ result.exc.causeOrigin = HWPX_NATIVE
                /\ ~loAvail \/ Len(invoked) = 2

C2_BothFailed ==
    /\ C2_AutoHwpx
    /\ pc = "done"
    /\ invoked = <<HWPX_NATIVE, LIBREOFFICE>>
    /\ result.kind = "raise"

C3_OnlyRequested ==
    arg.method # AUTO =>
        /\ \A i \in 1..Len(invoked) : invoked[i] = arg.method
        /\ Len(invoked) <= 1
        /\ pc = "raised" => exc # NoExc /\ exc.origin = arg.method
        /\ (pc = "done" /\ result.kind = "raise" /\ invoked # <<>>) =>
               result.exc.origin = arg.method

C3_FailureSurfaced ==
    (arg.method # AUTO /\ pc = "raised") =>
        (pc' = "done" /\ result' = Raised(exc) /\ invoked' = invoked)

(* C3: with an explicit method only the requested strategy is ever called, *)
(* and an exception it raises is what convert raises: nothing else is      *)
(* tried after it.                                                         *)
C3_NoFallbackWhenExplicit == []C3_OnlyRequested /\ [][C3_FailureSurfaced]_vars

C3_ExplicitFailed ==
    /\ arg.method = HWPX_NATIVE
    /\ pc = "done"
    /\ invoked = <<HWPX_NATIVE>>
    /\ result.kind = "raise"
    /\ loAvail

C4_Mismatch ==
    /\ arg.exists
    /\ \/ arg.method = PYHWP /\ ~_is_hwp5_file(arg)
       \/ arg.method = HWPX_NATIVE /\ ~_is_hwpx_file(arg)

(* C4: with an explicit method, a file that is not in the format the       *)
(* method accepts (pyhwp: the compound-binary HWP format only; hwpx-native:*)
(* HWPX only) makes convert raise HwpConversionError before any strategy   *)
(* is called and before any scratch directory is made.                     *)
C4_FailFast ==
    C4_Mismatch =>
        /\ invoked = <<>>
        /\ created = 0
        /\ pc = "done" => result = Raised(Raise("HwpConversionError", "convert"))

C5_Unknown ==
    /\ arg.method = AUTO
    /\ arg.exists
    /\ ~_is_hwpx_file(arg) /\ ~_is_hwp5_file(arg)
    /\ arg.ext \notin {".hwp", ".hwpx"}

(* C5: in Auto mode an existing file that neither inspector accepts and    *)
(* whose suffix is neither .hwp nor .hwpx makes convert raise              *)
(* HwpConversionError; no strategy is called and nothing is returned.      *)
C5_UnsupportedFormat ==
    C5_Unknown =>
        /\ pc \in {"convert", "done"}
        /\ invoked = <<>>
        /\ created = 0
        /\ pc = "done" => result = Raised(Raise("HwpConversionError", "convert"))

C5_UnknownRejected == C5_Unknown /\ pc = "done" /\ result.kind = "raise"

(* C6: convert raises nothing but FileNotFoundError and                    *)
(* HwpConversionError; FileNotFoundError exactly when the input path does  *)
(* not exist, and then before any strategy or scratch directory.           *)
C6_OnlyTwoExceptions ==
    (pc = "done" /\ result.kind = "raise") =>
        /\ result.exc.type \in {"FileNotFoundError", "HwpConversionError"}
        /\ result.exc.type = "FileNotFoundError" <=> ~arg.exists
        /\ ~arg.exists => invoked = <<>> /\ created = 0

----------------------------------------------------------------------------
(* Properties of cli.main, checked under SpecCli. *)

BatchMode == mainPc \notin {"off", "start", "single"} /\ cli.files # <<>>
             /\ ~(Len(cli.files) = 1 /\ cli.output)

MainOver == mainPc \in {"returned", "crashed"}

(* C7: in batch mode main attempts every input in order; each failed input *)
(* gives exactly one error line and does not stop the later inputs; when   *)
(* main returns, success_count + error_count is the number of inputs and   *)
(* the exit code is 0 exactly when no input failed.                        *)
C7_BatchContinues ==
    (BatchMode /\ MainOver) =>
        /\ mainPc = "returned"
        /\ cli.attempted = [i \in 1..Len(cli.files) |-> i]
        /\ Len(cli.errLines) = cli.error_count
        /\ cli.success_count + cli.error_count = Len(cli.files)
        /\ cli.exitCode = 0 <=> cli.error_count = 0

----------------------------------------------------------------------------
(* Properties of the HTTP endpoints, checked under SpecApi. *)

ClientError(st) == st >= 400 /\ st < 500

ServerError(st) == st >= 500 /\ st < 600

(* The name of the upload ends in .hwp or .hwpx, in any case of letters. *)
NameEndsInHwp == endswith(lower(api.filename), {".hwp", ".hwpx"})

(* C8: the endpoints answer 5xx when the conversion fails with a parse or  *)
(* engine error, 4xx for a file name that does not end in .hwp or .hwpx    *)
(* (convert is not called) and 4xx for an explicit method that does not    *)
(* fit the format of the upload.                                           *)
C8_IncompatibleIsClientError ==
    apiPc = "responded" =>
        /\ ~NameEndsInHwp =>
               ClientError(api.status) /\ ~api.called
        /\ (api.called /\ RejectsFormat(api.method, arg)) =>
               ClientError(api.status)
        /\ (api.called /\ result.kind = "raise"
               /\ ~RejectsFormat(api.method, arg)) => ServerError(api.status)

----------------------------------------------------------------------------
(* Properties of hwpx_to_html, checked under SpecHwpx. *)

RECURSIVE IsSubseq(_, _)
IsSubseq(a, b) ==
    IF a = <<>> THEN TRUE
    ELSE IF b = <<>> THEN FALSE
    ELSE IF Head(a) = Head(b) THEN IsSubseq(Tail(a), Tail(b))
    ELSE IsSubseq(a, Tail(b))

(* The section names in ascending order of their number (names with the    *)
(* same number in the order of str).                                       *)
RECURSIVE ByNumber(_)
ByNumber(names) ==
    IF names = {} THEN <<>>
    ELSE LET least == CHOOSE n \in names : \A m \in names \ {n} :
                          \/ Num(n) < Num(m)
                          \/ Num(n) = Num(m) /\ StrLess(CodePoints(n), CodePoints(m))
         IN  <<least>> \o ByNumber(names \ {least})

(* C9: the sections are processed in ascending order of their number: the  *)
(* markup of section i comes before the markup of section j when i < j.    *)
C9_NumericSectionOrder ==
    /\ \A i, j \in 1..Len(section_files) :
          Num(section_files[i]) < Num(section_files[j]) => i < j
    /\ \A k \in 1..secIdx :
          html_parts[4 + k] = _parse_section(archive.sections[section_files[k]])

(* The text runs of a section that are not blank, in document order. *)
RunsOf(root) ==
    LET ts == Iter(root, "t")
    IN  Flatten([i \in 1..Len(ts) |->
                    IF ts[i].text \notin Whitespace \cup {""}
                    THEN <<ts[i].text>> ELSE <<>>])

RunsInOrder(a) ==
    LET names == ByNumber(DOMAIN a.sections)
    IN  Flatten([k \in 1..Len(names) |-> RunsOf(a.sections[names[k]])])

(* C10: the markup the native parser returns holds the text of every text  *)
(* run, in document order: within a paragraph, across the paragraphs of a  *)
(* section, and across the sections in the order of their numbers.         *)
C10_RunsInDocumentOrder ==
    parsed.kind = "return" => IsSubseq(RunsInOrder(archive), parsed.html)

----------------------------------------------------------------------------
(* Properties of _parse_section, checked under SpecSection. *)

(* The indices of the tokens of a markup that are equal to tok. *)
IndicesOf(html, tok) ==
    SelectSeq([i \in 1..Len(html) |-> i], LAMBDA i : html[i] = tok)

(* What a cell declares for a span attribute. *)
Declared(tc, a) ==
    LET spans == SelectSeq(tc.kids, LAMBDA k : k.tag = "cellSpan")
    IN  IF spans = <<>> THEN "absent" ELSE spans[1].attrs[a]

SpanOrOne(v) == IF v \in Numerals THEN v ELSE "1"

(* C11: every td of the markup carries a colspan and a rowspan attribute;  *)
(* each is the value the cell declares when that is a numeral, and 1 when  *)
(* the cellSpan element or the attribute is absent or is no numeral.       *)
C11_SpansDefaultToOne ==
    sectionPc = "done" =>
        LET tcs == Iter(section_tree, "tc")
            tds == IndicesOf(section_html, "<td colspan='")
        IN  /\ Len(tds) = Len(tcs)
            /\ \A k \in 1..Len(tds) :
                 /\ tds[k] + 4 <= Len(section_html)
                 /\ section_html[tds[k] + 1] = SpanOrOne(Declared(tcs[k], "colSpan"))
                 /\ section_html[tds[k] + 2] = "' rowspan='"
                 /\ section_html[tds[k] + 3] = SpanOrOne(Declared(tcs[k], "rowSpan"))
                 /\ section_html[tds[k] + 4] = "'>"

(* The text runs and line breaks below an element in document order, a     *)
(* line break standing for one newline.                                    *)
RECURSIVE TextInOrder(_), TextInOrderAll(_)
TextInOrderAll(es) ==
    IF es = <<>> THEN <<>> ELSE TextInOrder(Head(es)) \o TextInOrderAll(Tail(es))

TextInOrder(e) ==
    (IF e.tag = "t" /\ e.text # "" THEN <<e.text>>
     ELSE IF e.tag = "lineBreak" THEN <<"\n">>
     ELSE <<>>) \o TextInOrderAll(e.kids)

HasTable(root) == Iter(root, "tbl") # <<>>

(* C20: the text of a paragraph is its text runs and line breaks in        *)
(* document order, each line break giving one newline at the place where   *)
(* it stands: run A, line break, run B gives A, newline, B.                *)
C20_LineBreakInPlace ==
    (sectionPc = "done" /\ ~HasTable(section_tree)) =>
        LET text == TextInOrder(section_tree)
        IN  section_html = IF \A i \in 1..Len(text) : text[i] = "\n" THEN <<>>
                           ELSE <<"<p>">> \o text \o <<"</p>">>

(* The token at index i of a markup stands inside a td element. *)
InsideTd(html, i) ==
    \E j \in 1..i : /\ html[j] = "<td colspan='"
                    /\ \A k \in j..i : html[k] # "</td>"

CellTokens(html, tok) ==
    SelectSeq(IndicesOf(html, tok), LAMBDA i : InsideTd(html, i))

(* C21: the text of a cell is on one line: no newline stands inside a td   *)
(* element of the section markup, and every line break of a cell has       *)
(* become one space there.                                                 *)
C21_CellTextSingleLine ==
    (sectionPc = "done" /\ HasTable(section_tree)) =>
        /\ CellTokens(section_html, "\n") = <<>>
        /\ Len(CellTokens(section_html, " ")) = Len(Iter(section_tree, "lineBreak"))

Count(html, tok) == Len(IndicesOf(html, tok))

TextRuns(root, text) == SelectSeq(Iter(root, "t"), LAMBDA t : t.text = text)

(* C22: a paragraph that wraps a table (one that holds no nested table)    *)
(* gives the table and nothing else: the section markup has one table      *)
(* element and no p element, and the text of every cell stands in it once. *)
C22_TableParagraphIsOnlyTable ==
    (sectionPc = "done" /\ Len(Iter(section_tree, "tbl")) = 1) =>
        /\ Count(section_html, "<table border='1'>") = 1
        /\ Count(section_html, "<p>") = 0
        /\ \A text \in {"A", "B"} :
             Count(section_html, text) = Len(TextRuns(section_tree, text))

(* The children of an element that carry a tag. *)
Kids(e, tag) == SelectSeq(e.kids, LAMBDA k : k.tag = tag)

(* The first table element of a markup, and the number of td elements in   *)
(* each of its tr elements.                                                *)
FirstTable(html) ==
    SubSeq(html, IndicesOf(html, "<table border='1'>")[1], IndicesOf(html, "</table>")[1])

RowShape(tbl_html) ==
    LET opens == IndicesOf(tbl_html, "<tr>")
        closes == IndicesOf(tbl_html, "</tr>")
    IN  [k \in 1..Len(opens) |->
            Count(SubSeq(tbl_html, opens[k], closes[k]), "<td colspan='")]

(* C23: the markup of a table has one tr for each row that is a child of   *)
(* the table and, in it, one td for each cell that is a child of that row, *)
(* in the order of the source; the rows and cells of a table nested in a   *)
(* cell are not rows and cells of the outer table.                         *)
C23_OneRowPerDirectRow ==
    (sectionPc = "done" /\ HasTable(section_tree)) =>
        LET tbl == Iter(section_tree, "tbl")[1]
            rows == Kids(tbl, "tr")
        IN  RowShape(FirstTable(section_html)) =
                [k \in 1..Len(rows) |-> Len(Kids(rows[k], "tc"))]

----------------------------------------------------------------------------
(* Properties of html_to_markdown, checked under SpecRender. *)

(* p occurs in s as a run of neighbouring atoms. *)
Contains(s, p) ==
    \E i \in 1..(Len(s) - Len(p) + 1) : SubSeq(s, i, i + Len(p) - 1) = p

Atoms(s) == {s[i] : i \in 1..Len(s)}

(* The img elements of the content in document order, each with whether a  *)
(* table stands above it; what is below a script, style, meta or link      *)
(* element is no content.                                                  *)
RECURSIVE ImagesOf(_, _)
ImagesOf(nodes, in_table) ==
    IF nodes = <<>> THEN <<>>
    ELSE LET n == Head(nodes)
         IN  (IF n.tag \in NonContent THEN <<>>
              ELSE IF n.tag = "img"
                   THEN <<[src |-> n.src, alt |-> n.alt, in_table |-> in_table]>>
              ELSE ImagesOf(n.kids, in_table \/ n.tag = "table"))
             \o ImagesOf(Tail(nodes), in_table)

TableImages == SelectSeq(ImagesOf(markup, FALSE), LAMBDA i : i.in_table)

IsKey(src) == \E i \in 1..Len(image_mapping) : image_mapping[i][1] = src

ValueOf(src) == image_mapping[CHOOSE i \in 1..Len(image_mapping) :
                                  image_mapping[i][1] = src][2]

ImageSyntax(alt, src) == <<"![", alt, "](">> \o src \o <<")">>

(* C12: every img below a table is in the Markdown as ![alt](src), src     *)
(* being the value of the mapping when the source of the image is one of   *)
(* its keys and the source itself otherwise; no image is lost or doubled   *)
(* and no part of a placeholder is left.                                   *)
C12_TableImagesRestored ==
    renderPc = "done" =>
        /\ \A k \in 1..Len(TableImages) :
             LET img == TableImages[k]
             IN  Contains(markdown,
                          ImageSyntax(img.alt, IF IsKey(img.src) THEN ValueOf(img.src)
                                               ELSE img.src))
        /\ Len(IndicesOf(markdown, "![")) = Len(ImagesOf(markup, FALSE))
        /\ Atoms(markdown) \cap {"IMGPLACEHOLDER", "ENDIMG"} = {}

C12_TwoTableImages ==
    /\ renderPc = "done"
    /\ Len(TableImages) = 2
    /\ TableImages[1] # TableImages[2]
    /\ IsKey(TableImages[1].src)
    /\ ~IsKey(TableImages[2].src)
    /\ Contains(markdown, ImageSyntax("sajin", <<"images", "/", "image1.png">>))

(* C13: an image whose source is a key of the mapping, below a table or    *)
(* not, is in the Markdown with the value of the key as its source, and    *)
(* the key is nowhere in the Markdown.                                     *)
C13_KeyReplacedEverywhere ==
    renderPc = "done" =>
        \A k \in 1..Len(ImagesOf(markup, FALSE)) :
            LET img == ImagesOf(markup, FALSE)[k]
            IN  IsKey(img.src) =>
                    /\ Contains(markdown, ImageSyntax(img.alt, ValueOf(img.src)))
                    /\ ~Contains(markdown, img.src)

(* The text below the elements that are not content, and the other text. *)
RECURSIVE TextsOf(_, _, _)
TextsOf(nodes, removed, want) ==
    IF nodes = <<>> THEN {}
    ELSE LET n == Head(nodes)
             gone == removed \/ n.tag \in NonContent
         IN  (IF n.tag = "#text" /\ gone = want THEN Atoms(n.text) ELSE {})
             \cup TextsOf(n.kids, gone, want) \cup TextsOf(Tail(nodes), removed, want)

(* C14: no text below a script, style, meta or link element is in the      *)
(* Markdown, and the text of every other element is.                       *)
C14_NonContentRemoved ==
    renderPc = "done" =>
        /\ TextsOf(markup, FALSE, TRUE) \cap Atoms(markdown) = {}
        /\ TextsOf(markup, FALSE, FALSE) \subseteq Atoms(markdown)

C14_ScriptBesideText ==
    /\ renderPc = "done"
    /\ TextsOf(markup, FALSE, TRUE) = {"alert(1)"}
    /\ TextsOf(markup, FALSE, FALSE) = {"body"}
    /\ markdown = <<"body">>

----------------------------------------------------------------------------
(* Properties of the strategies' output, checked under Spec. *)

(* C15: a step of image extraction in which the copy of an image fails     *)
(* raises nothing, in every strategy: the call goes on to render with the  *)
(* mapping of the images that were copied.                                 *)
C15_CopyFailureSwallowed ==
    [][(pc = "extract" /\ disk'.copy_errors > disk.copy_errors) =>
           (pc' = "render" /\ exc' = NoExc)]_vars

(* C16: when convert returns, it returns the Markdown of the document;     *)
(* with an output path the file there holds the returned text, and without *)
(* one nothing is written: no output file, no directory, no image, also    *)
(* when an image directory was named.                                      *)
C16_ReturnsWhatItWrote ==
    (pc = "done" /\ result.kind = "return") =>
        /\ Contains(result.value, <<"body">>)
        /\ arg.output => disk.written /\ disk.text = result.value
        /\ ~arg.output => disk = NoDisk

C16_WrittenAndReturned ==
    /\ pc = "done" /\ result.kind = "return"
    /\ arg.output /\ arg.images_dir
    /\ disk.images = {"image1.png"} /\ disk.image_root = "images_dir"
    /\ disk.written /\ disk.text = result.value
    /\ Contains(result.value, <<"images", "/", "image1.png">>)

----------------------------------------------------------------------------
(* Properties of is_hwpx_file, checked under SpecHwpx, where hwpx_to_html  *)
(* asks it first and makes a scratch directory only for a file it accepts. *)

(* The mimetype entry is there and "hwp" is in it. *)
MimetypeSaysHwp(a) == a.mimetype = "application/hwp+zip"

(* Contents/section0.xml is in the listing. *)
HasSection0(a) == <<0>> \in DOMAIN a.sections

(* C17: a readable zip archive is taken for HWPX when its mimetype entry   *)
(* has "hwp" in it, or else when Contents/section0.xml is in its listing,  *)
(* also when there is a mimetype entry without "hwp"; nothing else is,     *)
(* and a file that is no zip archive is refused without an exception of    *)
(* is_hwpx_file.                                                           *)
C17_HwpxDetection ==
    parsePc # "start" =>
        (parsed.tmpdir # "none" <=>
            (archive.zip /\ (MimetypeSaysHwp(archive) \/ HasSection0(archive))))

----------------------------------------------------------------------------
(* Termination of convert, checked under FairSpec. *)

(* C18: every wait for an engine process (hwp5html, LibreOffice) is        *)
(* bounded by a timeout, so that a call of convert returns or raises also  *)
(* when the engine process never exits.                                    *)
C18_ConvertTerminates == (pc = "convert") ~> (pc = "done")

----------------------------------------------------------------------------
(* Properties of concurrent calls, checked under SpecCalls. *)

InScratch(c) == calls[c].pc \in {"extract", "render", "cleanup"}

(* What the call returns when no other call runs. *)
Alone(c) ==
    html_to_markdown(HtmlOfDoc(calls[c].doc),
                     IF calls[c].strat = PYHWP
                     THEN << << <<"bindata", "/", "image1.png">>,
                                <<"images", "/", "image1.png">> >> >>
                     ELSE << << <<"BinData", "/", "image1.png">>,
                                <<"images", "/", "image1.png">> >> >>)

(* C19: of two calls that run at the same time each has a scratch          *)
(* directory of its own: while a call uses its directory, the directory    *)
(* is there and holds what that call put into it, whatever the other call  *)
(* does; the images a call copies are those of its own document; and the   *)
(* Markdown it returns is the Markdown it returns when it runs alone.      *)
C19_OwnScratchDirectory ==
    \A c \in Calls :
        /\ InScratch(c) =>
             /\ tmp_dirs[calls[c].tmpdir] = calls[c].doc
             /\ \A o \in Calls \ {c} : InScratch(o) => calls[o].tmpdir # calls[c].tmpdir
        /\ calls[c].pc \in {"render", "cleanup", "done"} =>
             calls[c].copied = {<<"image1.png", calls[c].doc>>}
        /\ calls[c].pc = "done" => calls[c].markdown = Alone(c)

C19_BothInScratch ==
    /\ calls[1].doc # calls[2].doc
    /\ calls[1].pc = "cleanup" /\ calls[2].pc = "extract"
    /\ calls[1].strat = PYHWP /\ calls[2].strat = PYHWP
    /\ calls[1].markdown = Alone(1)

----------------------------------------------------------------------------
(* The office engine strategy, checked under Spec. *)

(* A mapping is one-to-one: no two of its keys have the same value. *)
OneToOne(mapping) ==
    \A i, j \in 1..Len(mapping) : mapping[i][2] = mapping[j][2] => i = j

(* C24: when the office engine strategy returns and an output path was     *)
(* given, its path mapping is one-to-one and every image the engine wrote  *)
(* as a loose file F is referenced in the Markdown as images/F, the        *)
(* container name standing before F once.                                  *)
C24_ContainerPrefixedOnce ==
    (pc = "done" /\ result.kind = "return" /\ result.by = LIBREOFFICE /\ arg.output) =>
        /\ OneToOne(locals.image_mapping)
        /\ \A i \in 1..Len(DocImages) :
             Contains(result.value, <<"](", images_dir_name, "/", DocImages[i], ")">>)

====
